---- MODULE Spec2Model ----
(***************************************************************************)
(* Model of backend/app.py: the /api/process-speech request handler        *)
(* (process_speech), the transcription wrapper (transcribe_audio) and the  *)
(* placeholder viseme timeline generator (generate_viseme_data).           *)
(*                                                                         *)
(* Text is modelled as a sequence of one-character strings so that the     *)
(* substring test `"failed" in transcription.lower()` and the suffix test  *)
(* `.lower().endswith('.wav')` are computed, not assumed.  Times are kept  *)
(* in whole milliseconds: len(AudioSegment) is an integer number of ms and *)
(* round(x, 3) of a value in seconds is a whole number of milliseconds.    *)
(***************************************************************************)
EXTENDS Integers, Sequences, FiniteSets, TLC

(* ------------------------------ bounds -------------------------------- *)

\* Number of requests served, concurrently (each request slot is used once).
NumRequests == 1

\* Number of requests in flight at the same time in SpecConc.
NumConcurrent == 2

\* Longest clip, in ms, given to generate_viseme_data in SpecGen.
MaxDurationMs == 6300

(* ------------------------- program constants -------------------------- *)

\* min(int(duration * 5), 30): cues per second and the hard cap.
CuesPerSecond == 5
MaxCues == 30

\* Mutant of viseme_values: the rest symbol X is left out of the palette.
viseme_values_without_rest == <<"A", "B", "C", "D", "E", "F", "G", "H">>

\* viseme_values = ['A', 'B', 'C', 'D', 'E', 'F', 'G', 'H', 'X']
viseme_values == <<"A", "B", "C", "D", "E", "F", "G", "H", "X">>

(* ------------------------------- text --------------------------------- *)

\* str.lower() on one character (ASCII letters).
LowerChar(c) ==
    CASE c = "A" -> "a" [] c = "B" -> "b" [] c = "C" -> "c" [] c = "D" -> "d"
      [] c = "E" -> "e" [] c = "F" -> "f" [] c = "G" -> "g" [] c = "H" -> "h"
      [] c = "I" -> "i" [] c = "J" -> "j" [] c = "K" -> "k" [] c = "L" -> "l"
      [] c = "M" -> "m" [] c = "N" -> "n" [] c = "O" -> "o" [] c = "P" -> "p"
      [] c = "Q" -> "q" [] c = "R" -> "r" [] c = "S" -> "s" [] c = "T" -> "t"
      [] c = "U" -> "u" [] c = "V" -> "v" [] c = "W" -> "w" [] c = "X" -> "x"
      [] c = "Y" -> "y" [] c = "Z" -> "z" [] OTHER -> c

\* str.lower()
Lower(s) == [i \in 1..Len(s) |-> LowerChar(s[i])]

\* `sub in s` for strings
Contains(sub, s) ==
    \E i \in 0..(Len(s) - Len(sub)) : SubSeq(s, i + 1, i + Len(sub)) = sub

\* s.endswith(suffix)
EndsWith(s, suffix) ==
    /\ Len(s) >= Len(suffix)
    /\ SubSeq(s, Len(s) - Len(suffix) + 1, Len(s)) = suffix

EmptyStr == <<>>
StrFailed == <<"f","a","i","l","e","d">>
StrDotWav == <<".","w","a","v">>

\* "Transcription failed: Input audio file not found."
MsgFileNotFound == <<"T","r","a","n","s","c","r","i","p","t","i","o","n"," ","f","a","i","l","e","d",":"," ","I","n","p","u","t"," ","a","u","d","i","o"," ","f","i","l","e"," ","n","o","t"," ","f","o","u","n","d",".">>

\* Mutant of MsgApiError: a service error is reported as the empty string.
MsgApiError_empty(e) == EmptyStr

\* f"Transcription failed: API request error ({e}). Check internet connection."
MsgApiError(e) ==
    <<"T","r","a","n","s","c","r","i","p","t","i","o","n"," ","f","a","i","l","e","d",":"," ","A","P","I"," ","r","e","q","u","e","s","t"," ","e","r","r","o","r"," ","(">>
    \o e \o
    <<")","."," ","C","h","e","c","k"," ","i","n","t","e","r","n","e","t"," ","c","o","n","n","e","c","t","i","o","n",".">>

\* A message for the unexpected error without the words "Transcription
\* failed".
MsgUnexpected_plain(e) ==
    <<"U","n","e","x","p","e","c","t","e","d"," ","e","r","r","o","r"," ","(">>
    \o e \o <<")",".">>

\* f"Transcription failed: Unexpected error ({e})."
MsgUnexpected(e) ==
    <<"T","r","a","n","s","c","r","i","p","t","i","o","n"," ","f","a","i","l","e","d",":"," ","U","n","e","x","p","e","c","t","e","d"," ","e","r","r","o","r"," ","(">>
    \o e \o <<")",".">>

(* ------------------------ staged file contents ------------------------ *)

\* What os.path.exists / open find at a path that holds no file.
NoFile == [exists |-> FALSE, wav |-> FALSE, size |-> 0, ms |-> 0]

\* size bytes that are not decodable as WAV audio (size may be 0).
Garbage(size) == [exists |-> TRUE, wav |-> FALSE, size |-> size, ms |-> 0]

\* A well-formed WAV payload holding ms milliseconds of audio
\* (44-byte header, 16 kHz 16-bit mono samples).
WavClip(ms) == [exists |-> TRUE, wav |-> TRUE, size |-> 44 + 32 * ms, ms |-> ms]

(* ------------------------ generate_viseme_data ------------------------ *)

Min(a, b) == IF a <= b THEN a ELSE b

\* Mutant of num_cues: the cap of 30 is left out.
num_cues_uncapped(ms) == (ms * CuesPerSecond) \div 1000

\* num_cues = min(int(duration * 5), 30) with duration = len(audio) / 1000.0
num_cues(ms) == Min((ms * CuesPerSecond) \div 1000, MaxCues)

\* The boundaries k of an n-cue timeline whose exact position k*ms/n lies
\* exactly half-way between two milliseconds.
TieBoundaries(ms, n) ==
    IF n = 0 THEN {} ELSE {k \in 0..n : 2 * ((k * ms) % n) = n}

\* round(k * (duration / num_cues), 3), in milliseconds.  Away from a tie
\* the result is the nearest millisecond.  On an exact half millisecond the
\* binary floating-point value of k * (duration / num_cues) lies just above
\* or just below the tie, so the result goes either way; `up` is the set of
\* boundaries at which it goes up.
RoundedBoundary(k, ms, n, up) ==
    LET q == (k * ms) \div n
        r == (k * ms) % n
    IN  IF 2 * r < n THEN q
        ELSE IF 2 * r > n THEN q + 1
        ELSE IF k \in up THEN q + 1 ELSE q

\* Mutant of MakeCue: every cue gets the width duration / num_cues rounded
\* once, instead of rounding each boundary.
MakeCue_fixed_width(i, ms, n, up) ==
    [start |-> i * RoundedBoundary(1, ms, n, up),
     end   |-> (i + 1) * RoundedBoundary(1, ms, n, up),
     value |-> viseme_values[(i % Len(viseme_values)) + 1]]

\* One element of visemes: {'start': ..., 'end': ..., 'value': ...}
MakeCue(i, ms, n, up) ==
    [start |-> RoundedBoundary(i, ms, n, up),
     end   |-> RoundedBoundary(i + 1, ms, n, up),
     value |-> viseme_values[(i % Len(viseme_values)) + 1]]

\* A generator that catches FileNotFoundError like every other exception.
generate_viseme_data_swallowing(file, up) ==
    IF ~file.exists \/ ~file.wav
      THEN [exc |-> "none", mouthCues |-> <<>>]
    ELSE IF file.ms <= 0 \/ num_cues(file.ms) = 0
      THEN [exc |-> "none", mouthCues |-> <<>>]
    ELSE [exc |-> "none",
          mouthCues |-> [j \in 1..num_cues(file.ms) |->
                           MakeCue(j - 1, file.ms, num_cues(file.ms), up)]]

\* Mutant of generate_viseme_data: a decoding error is re-raised like
\* FileNotFoundError instead of degrading to the empty timeline.
generate_viseme_data_reraising(file, up) ==
    IF ~file.exists
      THEN [exc |-> "FileNotFoundError", mouthCues |-> <<>>]
    ELSE IF ~file.wav
      THEN [exc |-> "CouldntDecodeError", mouthCues |-> <<>>]
    ELSE IF file.ms <= 0 \/ num_cues(file.ms) = 0
      THEN [exc |-> "none", mouthCues |-> <<>>]
    ELSE [exc |-> "none",
          mouthCues |-> [j \in 1..num_cues(file.ms) |->
                           MakeCue(j - 1, file.ms, num_cues(file.ms), up)]]

\* generate_viseme_data(audio_path) applied to the file found at audio_path
\* (NoFile when it does not exist).  exc is the exception that leaves the
\* function ("none" when it returns), mouthCues the returned timeline with
\* cue i of the code at index i + 1.
generate_viseme_data(file, up) ==
    IF ~file.exists
      THEN [exc |-> "FileNotFoundError", mouthCues |-> <<>>]
    ELSE IF ~file.wav
      THEN [exc |-> "none", mouthCues |-> <<>>]
    ELSE IF file.ms <= 0
      THEN [exc |-> "none", mouthCues |-> <<>>]
    ELSE IF num_cues(file.ms) = 0
      THEN [exc |-> "none", mouthCues |-> <<>>]
    ELSE [exc |-> "none",
          mouthCues |-> [j \in 1..num_cues(file.ms) |->
                           MakeCue(j - 1, file.ms, num_cues(file.ms), up)]]

(* ----------------------------- inputs --------------------------------- *)

Requests == 1..NumRequests

\* Values uuid.uuid4() can return; the staged file of identifier u is
\* os.path.join(UPLOAD_FOLDER, f"{u}.wav"), so u also names the path.
Uuids == 1..NumRequests

\* Declared filenames of the uploaded part: "", "clip.wav", "voice.webm".
Filenames ==
    { EmptyStr,
      <<"c","l","i","p",".","w","a","v">>,
      <<"v","o","i","c","e",".","w","e","b","m">> }

\* Clip lengths in ms used by requests: no audio frames, too short for a
\* cue, two cues with a half-millisecond boundary, 3.0 s, 10.0 s (capped).
ClipDurationsMs == {0, 150, 401, 3000, 10000}

\* Payloads of the uploaded part: empty, undecodable bytes, WAV clips.
Payloads == {Garbage(0), Garbage(10)} \cup {WavClip(ms) : ms \in ClipDurationsMs}

\* Texts recognize_google returns: "hello world", "We Failed".
RecognizedTexts ==
    { <<"h","e","l","l","o"," ","w","o","r","l","d">>,
      <<"W","e"," ","F","a","i","l","e","d">> }

\* str(e) of the exception caught in transcribe_audio: "timed out".
ErrorDetails == { <<"t","i","m","e","d"," ","o","u","t">> }

(* ------------------------------ state --------------------------------- *)

VARIABLES
    rq,        \* per request: position in process_speech and its locals
    uploads,   \* UPLOAD_FOLDER: path -> file contents (NoFile when absent)
    issued,    \* identifiers uuid4() has returned so far
    fp,        \* rounding decisions taken so far: pairs <<ms, up>>
    gen_pc,    \* SpecGen: "ready" before the call, "done" after
    gen_in,    \* SpecGen: the file generate_viseme_data is applied to
    gen_out    \* SpecGen: what the call returned or raised

vars == <<rq, uploads, issued, fp, gen_pc, gen_in, gen_out>>

NoResponse ==
    [status |-> 0, error |-> "", details |-> "", original_filename |-> EmptyStr,
     size |-> 0, transcript |-> EmptyStr, mouthCues |-> <<>>]

\* jsonify({'error': ..., 'details': ...}), status
ErrorResponse(status, error, details) ==
    [NoResponse EXCEPT !.status = status, !.error = error, !.details = details]

\* The except clauses of process_speech: ValueError -> 400,
\* FileNotFoundError -> 500, any other Exception -> 500.
HandlerResponse(exc) ==
    IF exc = "ValueError"
      THEN ErrorResponse(400, "File processing error", "Uploaded audio file is empty.")
    ELSE IF exc = "FileNotFoundError"
      THEN ErrorResponse(500, "File processing error", "Could not find intermediate file")
    ELSE ErrorResponse(500, "An unexpected error occurred during processing", exc)

\* An exception handler that returns at once, the finally block not run.
Raised_without_finally(locals, exc, where) ==
    [locals EXCEPT !.pc = "responded", !.exc = exc, !.raised_in = where,
                   !.response = HandlerResponse(exc)]

\* The locals of process_speech after `exc` was raised by the step `where`
\* and caught by its handler: the response is computed, the finally block
\* is next.
Raised(locals, exc, where) ==
    [locals EXCEPT !.pc = "finally", !.exc = exc, !.raised_in = where,
                   !.response = HandlerResponse(exc)]

\* The 200 response of process_speech.
SuccessResponse(original_filename, file_size, transcription, mouthCues) ==
    [NoResponse EXCEPT !.status = 200,
                       !.original_filename = original_filename,
                       !.size = file_size,
                       !.transcript = transcription,
                       !.mouthCues = mouthCues]

IdleRequest ==
    [pc |-> "idle", has_audio |-> FALSE, original_filename |-> EmptyStr,
     payload |-> Garbage(0), warned |-> FALSE, input_filepath |-> 0,
     cleanup_input |-> FALSE, file_size |-> 0, transcription |-> EmptyStr,
     response |-> NoResponse, exc |-> "none", raised_in |-> "none",
     outcome |-> "none", wrote |-> FALSE, decoded |-> FALSE,
     remove_failed |-> FALSE,
     n_transcribe |-> 0, n_recognize |-> 0, n_generate |-> 0]

Init ==
    /\ rq = [r \in Requests |-> IdleRequest]
    /\ uploads = [u \in Uuids |-> NoFile]
    /\ issued = {}
    /\ fp = {}
    /\ gen_pc = "done"
    /\ gen_in = NoFile
    /\ gen_out = [exc |-> "none", mouthCues |-> <<>>]

GenUnchanged == UNCHANGED <<gen_pc, gen_in, gen_out>>

(* --------------------------- process_speech --------------------------- *)

\* A new request arrives: the multipart body has or lacks an 'audio' part,
\* with a declared filename and a payload.
Receive(r) ==
    /\ rq[r].pc = "idle"
    /\ \E has_audio \in BOOLEAN, filename \in Filenames, payload \in Payloads :
          /\ has_audio \/ (filename = EmptyStr /\ payload = Garbage(0))
          /\ rq' = [rq EXCEPT ![r].pc = "received",
                              ![r].has_audio = has_audio,
                              ![r].original_filename = filename,
                              ![r].payload = payload]
    /\ UNCHANGED <<uploads, issued, fp>>
    /\ GenUnchanged

\* Mutant of uuid4: an identifier already handed out can come back.
uuid4_colliding(taken) == DOMAIN uploads

\* uuid.uuid4(): any identifier not handed out before (taken).
uuid4(taken) == (DOMAIN uploads) \ taken

\* Mutant of EmptyFilename: the filename is never found empty.
EmptyFilename_never(original_filename) == FALSE

\* `not original_filename`
EmptyFilename(original_filename) == original_filename = EmptyStr

\* A validation that rejects a declared filename not ending in .wav (the
\* return the code keeps commented out).
Validate_strict_wav(r) ==
    /\ rq[r].pc = "received"
    /\ IF ~rq[r].has_audio
         THEN /\ rq' = [rq EXCEPT ![r].pc = "responded",
                          ![r].response = ErrorResponse(400, "No audio file part",
                              "Request must contain a file part named 'audio'.")]
              /\ UNCHANGED issued
       ELSE IF EmptyFilename(rq[r].original_filename)
         THEN /\ rq' = [rq EXCEPT ![r].pc = "responded",
                          ![r].response = ErrorResponse(400, "No selected file",
                              "Uploaded file has an empty filename.")]
              /\ UNCHANGED issued
       ELSE IF ~EndsWith(Lower(rq[r].original_filename), StrDotWav)
         THEN /\ rq' = [rq EXCEPT ![r].pc = "responded",
                          ![r].warned = TRUE,
                          ![r].response = ErrorResponse(400, "Invalid file format",
                              "Expected a .wav file.")]
              /\ UNCHANGED issued
       ELSE \E unique_id \in uuid4(issued) :
              /\ rq' = [rq EXCEPT ![r].pc = "validated",
                          ![r].warned = FALSE,
                          ![r].input_filepath = unique_id,
                          ![r].cleanup_input = FALSE]
              /\ issued' = issued \cup {unique_id}
    /\ UNCHANGED <<uploads, fp>>
    /\ GenUnchanged

\* Steps 1-3 up to `cleanup_input = False`: the two validation returns, the
\* extension warning, and the fresh staged name.
Validate(r) ==
    /\ rq[r].pc = "received"
    /\ IF ~rq[r].has_audio
         THEN /\ rq' = [rq EXCEPT ![r].pc = "responded",
                          ![r].response = ErrorResponse(400, "No audio file part",
                              "Request must contain a file part named 'audio'.")]
              /\ UNCHANGED issued
       ELSE IF EmptyFilename(rq[r].original_filename)
         THEN /\ rq' = [rq EXCEPT ![r].pc = "responded",
                          ![r].response = ErrorResponse(400, "No selected file",
                              "Uploaded file has an empty filename.")]
              /\ UNCHANGED issued
       ELSE \E unique_id \in uuid4(issued) :
              /\ rq' = [rq EXCEPT ![r].pc = "validated",
                          ![r].warned = ~EndsWith(Lower(rq[r].original_filename), StrDotWav),
                          ![r].input_filepath = unique_id,
                          ![r].cleanup_input = FALSE]
              /\ issued' = issued \cup {unique_id}
    /\ UNCHANGED <<uploads, fp>>
    /\ GenUnchanged

\* audio_file.save(input_filepath); cleanup_input = True.  The save either
\* completes, fails before the file is created (exc raised by open), or
\* fails part-way, leaving a truncated file behind.
Save(r) ==
    /\ rq[r].pc = "validated"
    /\ \/ /\ uploads' = [uploads EXCEPT ![rq[r].input_filepath] = rq[r].payload]
          /\ rq' = [rq EXCEPT ![r].pc = "saved",
                              ![r].cleanup_input = TRUE,
                              ![r].wrote = TRUE]
       \/ /\ \E exc \in {"FileNotFoundError", "OSError"} :
                rq' = [rq EXCEPT ![r] = Raised(rq[r], exc, "save")]
          /\ UNCHANGED uploads
       \/ /\ uploads' = [uploads EXCEPT ![rq[r].input_filepath] =
                                           Garbage(rq[r].payload.size \div 2)]
          /\ rq' = [rq EXCEPT ![r] =
                       Raised([rq[r] EXCEPT !.wrote = TRUE], "OSError", "save")]
    /\ UNCHANGED <<issued, fp>>
    /\ GenUnchanged

\* file_size = os.path.getsize(input_filepath) and the empty-file check.
SizeCheck(r) ==
    LET file == uploads[rq[r].input_filepath] IN
    /\ rq[r].pc = "saved"
    /\ IF ~file.exists
         THEN rq' = [rq EXCEPT ![r] =
                       Raised(rq[r], "FileNotFoundError", "getsize")]
       ELSE IF file.size = 0
         THEN rq' = [rq EXCEPT ![r] =
                       Raised([rq[r] EXCEPT !.file_size = 0], "ValueError", "check")]
       ELSE rq' = [rq EXCEPT ![r].pc = "sized", ![r].file_size = file.size]
    /\ UNCHANGED <<uploads, issued, fp>>
    /\ GenUnchanged

(* -------------------------- transcribe_audio -------------------------- *)

\* transcribe_audio up to recognizer.record(source): the existence check
\* and the read of the whole WAV file.  The read can fail for a file that
\* passed the existence check (it is not WAV, it vanished since, I/O
\* error); `except Exception` turns that into a failure message.
TranscribeRead(r) ==
    LET file == uploads[rq[r].input_filepath] IN
    /\ rq[r].pc = "sized"
    /\ IF ~file.exists
         THEN rq' = [rq EXCEPT ![r].pc = "transcribed",
                               ![r].n_transcribe = @ + 1,
                               ![r].outcome = "file_not_found",
                               ![r].transcription = MsgFileNotFound]
       ELSE IF ~file.wav
         THEN \E e \in ErrorDetails :
                rq' = [rq EXCEPT ![r].pc = "transcribed",
                                 ![r].n_transcribe = @ + 1,
                                 ![r].outcome = "unexpected",
                                 ![r].transcription = MsgUnexpected(e)]
       ELSE \/ rq' = [rq EXCEPT ![r].pc = "recognizing", ![r].n_transcribe = @ + 1]
            \/ \E e \in ErrorDetails :
                  rq' = [rq EXCEPT ![r].pc = "transcribed",
                                   ![r].n_transcribe = @ + 1,
                                   ![r].outcome = "unexpected",
                                   ![r].transcription = MsgUnexpected(e)]
    /\ UNCHANGED <<uploads, issued, fp>>
    /\ GenUnchanged

\* A transcribe_audio that calls the service again after a RequestError.
Recognize_retrying(r) ==
    /\ rq[r].pc = "recognizing"
    /\ \/ \E outcome \in {"text", "unintelligible", "unexpected"},
              text \in RecognizedTexts, e \in ErrorDetails :
              rq' = [rq EXCEPT ![r].pc = "transcribed",
                               ![r].n_recognize = @ + 1,
                               ![r].outcome = outcome,
                               ![r].transcription =
                                   IF outcome = "text" THEN text
                                   ELSE IF outcome = "unintelligible" THEN EmptyStr
                                   ELSE MsgUnexpected(e)]
       \/ /\ rq[r].n_recognize < 2
          /\ rq' = [rq EXCEPT ![r].n_recognize = @ + 1]
    /\ UNCHANGED <<uploads, issued, fp>>
    /\ GenUnchanged

\* recognizer.recognize_google(audio_data) and the except clauses of
\* transcribe_audio: text, UnknownValueError, RequestError, Exception.
Recognize(r) ==
    /\ rq[r].pc = "recognizing"
    /\ \E outcome \in {"text", "unintelligible", "request_error", "unexpected"},
          text \in RecognizedTexts, e \in ErrorDetails :
          rq' = [rq EXCEPT ![r].pc = "transcribed",
                           ![r].n_recognize = @ + 1,
                           ![r].outcome = outcome,
                           ![r].transcription =
                               IF outcome = "text" THEN text
                               ELSE IF outcome = "unintelligible" THEN EmptyStr
                               ELSE IF outcome = "request_error" THEN MsgApiError(e)
                               ELSE MsgUnexpected(e)]
    /\ UNCHANGED <<uploads, issued, fp>>
    /\ GenUnchanged

(* ------------------ process_speech after transcription ---------------- *)

\* Mutant of Usable: only the empty string counts as unusable.
Usable_unless_empty(transcription) == transcription # EmptyStr

\* not (not transcription or "failed" in transcription.lower())
Usable(transcription) ==
    ~(transcription = EmptyStr \/ Contains(StrFailed, Lower(transcription)))

\* The `if` branch: viseme_data = {'mouthCues': []}, then the 200 response.
SkipTimeline(r) ==
    /\ rq[r].pc = "transcribed"
    /\ ~Usable(rq[r].transcription)
    /\ rq' = [rq EXCEPT ![r].pc = "finally",
                        ![r].response = SuccessResponse(rq[r].original_filename,
                            rq[r].file_size, rq[r].transcription, <<>>)]
    /\ UNCHANGED <<uploads, issued, fp>>
    /\ GenUnchanged

\* A rounding whose result for a half-millisecond boundary can differ from
\* one call to the next.
UpChoices_unrepeatable(ms) == SUBSET TieBoundaries(ms, num_cues(ms))

\* The rounding decisions open to a call on a clip of ms milliseconds: the
\* ones already taken for that length, otherwise any.
UpChoices(ms) ==
    IF \E p \in fp : p[1] = ms
      THEN {p[2] : p \in {q \in fp : q[1] = ms}}
      ELSE SUBSET TieBoundaries(ms, num_cues(ms))

\* fp after a call that used `up` for a clip of ms milliseconds.
FpAfter(ms, up) ==
    IF TieBoundaries(ms, num_cues(ms)) = {} THEN fp ELSE fp \cup {<<ms, up>>}

\* The `else` branch: viseme_data = generate_viseme_data(input_filepath),
\* then the 200 response, or the handler of the exception it raised.
\* pydub may fail to decode a file that exists.
ComputeTimeline(r) ==
    LET file == uploads[rq[r].input_filepath] IN
    /\ rq[r].pc = "transcribed"
    /\ Usable(rq[r].transcription)
    /\ \E decodes \in BOOLEAN :
       \E up \in UpChoices(IF file.wav /\ decodes THEN file.ms ELSE 0) :
          LET seen == IF decodes THEN file ELSE [file EXCEPT !.wav = FALSE]
              viseme_data == generate_viseme_data(seen, up)
          IN  /\ decodes \/ file.exists
              /\ rq' = [rq EXCEPT ![r] =
                     IF viseme_data.exc = "none"
                       THEN [rq[r] EXCEPT
                               !.pc = "finally",
                               !.n_generate = @ + 1,
                               !.decoded = seen.wav,
                               !.response = SuccessResponse(rq[r].original_filename,
                                   rq[r].file_size, rq[r].transcription,
                                   viseme_data.mouthCues)]
                       ELSE Raised([rq[r] EXCEPT !.n_generate = @ + 1],
                                   viseme_data.exc, "generate")]
              /\ fp' = FpAfter(IF seen.wav THEN seen.ms ELSE 0, up)
    /\ UNCHANGED <<uploads, issued>>
    /\ GenUnchanged

\* Mutant of ShouldCleanup: the staged file is never removed.
ShouldCleanup_never(cleanup_input, file) == FALSE

\* `cleanup_input and os.path.exists(input_filepath)`
ShouldCleanup(cleanup_input, file) == cleanup_input /\ file.exists

\* A finally block in which the OSError of os.remove leaves the block and
\* replaces the response.
Finally_propagating(r) ==
    /\ rq[r].pc = "finally"
    /\ IF ShouldCleanup(rq[r].cleanup_input, uploads[rq[r].input_filepath])
         THEN \/ /\ uploads' = [uploads EXCEPT ![rq[r].input_filepath] = NoFile]
                 /\ rq' = [rq EXCEPT ![r].pc = "responded"]
              \/ /\ UNCHANGED uploads
                 /\ rq' = [rq EXCEPT ![r].pc = "responded",
                                     ![r].remove_failed = TRUE,
                                     ![r].response = HandlerResponse("OSError")]
         ELSE /\ UNCHANGED uploads
              /\ rq' = [rq EXCEPT ![r].pc = "responded"]
    /\ UNCHANGED <<issued, fp>>
    /\ GenUnchanged

\* A finally block that tries the removal again until it succeeds.
Finally_until_removed(r) ==
    /\ rq[r].pc = "finally"
    /\ IF ShouldCleanup(rq[r].cleanup_input, uploads[rq[r].input_filepath])
         THEN \/ /\ uploads' = [uploads EXCEPT ![rq[r].input_filepath] = NoFile]
                 /\ rq' = [rq EXCEPT ![r].pc = "responded"]
              \/ /\ UNCHANGED uploads
                 /\ rq' = [rq EXCEPT ![r].remove_failed = ~@]
         ELSE /\ UNCHANGED uploads
              /\ rq' = [rq EXCEPT ![r].pc = "responded"]
    /\ UNCHANGED <<issued, fp>>
    /\ GenUnchanged

\* The finally block: remove the staged file if it was saved and still
\* exists; os.remove may fail (OSError is caught and logged).  The response
\* computed before is then delivered.
Finally(r) ==
    /\ rq[r].pc = "finally"
    /\ IF ShouldCleanup(rq[r].cleanup_input, uploads[rq[r].input_filepath])
         THEN \/ /\ uploads' = [uploads EXCEPT ![rq[r].input_filepath] = NoFile]
                 /\ rq' = [rq EXCEPT ![r].pc = "responded"]
              \/ /\ UNCHANGED uploads
                 /\ rq' = [rq EXCEPT ![r].pc = "responded",
                                     ![r].remove_failed = TRUE]
         ELSE /\ UNCHANGED uploads
              /\ rq' = [rq EXCEPT ![r].pc = "responded"]
    /\ UNCHANGED <<issued, fp>>
    /\ GenUnchanged

\* Something outside the handler deletes a staged file of a request that is
\* still being processed (the case the existence checks and the
\* FileNotFoundError handler are written for).
ExternalRemove(r) ==
    /\ rq[r].pc \in {"saved", "sized", "recognizing", "transcribed", "finally"}
    /\ rq[r].input_filepath # 0
    /\ uploads[rq[r].input_filepath].exists
    /\ uploads' = [uploads EXCEPT ![rq[r].input_filepath] = NoFile]
    /\ UNCHANGED <<rq, issued, fp>>
    /\ GenUnchanged

Next ==
    \E r \in Requests :
        \/ Receive(r)
        \/ Validate(r)
        \/ Save(r)
        \/ SizeCheck(r)
        \/ TranscribeRead(r)
        \/ Recognize(r)
        \/ SkipTimeline(r)
        \/ ComputeTimeline(r)
        \/ Finally(r)
        \/ ExternalRemove(r)

Spec == Init /\ [][Next]_vars

(* ------------- generate_viseme_data as a function (SpecGen) ----------- *)

\* The files generate_viseme_data is applied to: a missing file, bytes
\* that do not decode, and every WAV clip of 0..MaxDurationMs milliseconds.
GenFiles == {NoFile, Garbage(10)} \cup {WavClip(ms) : ms \in 0..MaxDurationMs}

GenInit ==
    /\ rq = [r \in Requests |-> IdleRequest]
    /\ uploads = [u \in Uuids |-> NoFile]
    /\ issued = {}
    /\ fp = {}
    /\ gen_pc = "ready"
    /\ gen_in \in GenFiles
    /\ gen_out = [exc |-> "none", mouthCues |-> <<>>]

\* One call generate_viseme_data(audio_path) on gen_in.
GenCall ==
    /\ gen_pc = "ready"
    /\ \E up \in UpChoices(IF gen_in.wav THEN gen_in.ms ELSE 0) :
          /\ gen_out' = generate_viseme_data(gen_in, up)
          /\ fp' = FpAfter(IF gen_in.wav THEN gen_in.ms ELSE 0, up)
    /\ gen_pc' = "done"
    /\ UNCHANGED <<rq, uploads, issued, gen_in>>

GenNext == GenCall

SpecGen == GenInit /\ [][GenNext]_vars

(* ------------------- concurrent requests (SpecConc) ------------------- *)

\* The requests in flight together, each in its own worker thread.
ConcRequests == 1..NumConcurrent

\* Their declared filenames: "clip.wav", "voice.webm".
ConcFilenames == Filenames \ {EmptyStr}

\* Their payloads: a 401 ms clip and a 3.0 s clip.
ConcPayloads == {WavClip(401), WavClip(3000)}

ConcInit ==
    /\ rq = [r \in ConcRequests |-> IdleRequest]
    /\ uploads = [u \in ConcRequests |-> NoFile]
    /\ issued = {}
    /\ fp = {}
    /\ gen_pc = "done"
    /\ gen_in = NoFile
    /\ gen_out = [exc |-> "none", mouthCues |-> <<>>]

\* A new request with an audio part arrives.
ReceiveConc(r) ==
    /\ rq[r].pc = "idle"
    /\ \E filename \in ConcFilenames, payload \in ConcPayloads :
          rq' = [rq EXCEPT ![r].pc = "received",
                           ![r].has_audio = TRUE,
                           ![r].original_filename = filename,
                           ![r].payload = payload]
    /\ UNCHANGED <<uploads, issued, fp>>
    /\ GenUnchanged

\* Any request takes its next step: the threads interleave at every step.
ConcNext ==
    \E r \in ConcRequests :
        \/ ReceiveConc(r)
        \/ Validate(r)
        \/ Save(r)
        \/ SizeCheck(r)
        \/ TranscribeRead(r)
        \/ Recognize(r)
        \/ SkipTimeline(r)
        \/ ComputeTimeline(r)
        \/ Finally(r)
        \/ ExternalRemove(r)

SpecConc == ConcInit /\ [][ConcNext]_vars

(* ---------------------------- properties ------------------------------ *)

Responded(r) == rq[r].pc = "responded"

\* The staged file of request r is present in the upload directory.
StagedFilePresent(r) ==
    rq[r].input_filepath # 0 /\ uploads[rq[r].input_filepath].exists

\* A timeline as the response schema describes it: cues with start < end.
WellFormedTimeline(cues) ==
    \A j \in 1..Len(cues) : cues[j].start < cues[j].end

\* The request is one the validation or the empty-file check rejects.
StructurallyInvalid(r) ==
    \/ ~rq[r].has_audio
    \/ rq[r].original_filename = EmptyStr
    \/ rq[r].payload.size = 0

\* C1: every request that wrote a staged file into the upload directory has
\* no file left there once it has completed, whatever the exit path
\* (success, empty payload, failure in save, size check, transcription or
\* timeline generation, a save failing part-way, a delete failing).
C1_StagedFileAlwaysRemoved ==
    \A r \in Requests :
        (Responded(r) /\ rq[r].wrote) => ~StagedFilePresent(r)

\* C2 as stated: once a non-empty payload is staged (the size check passed)
\* every later failure yields 200 with a valid result, and only structurally
\* invalid requests are answered with a status other than 200.
C2_OnlyInvalidRequestsFail ==
    \A r \in Requests :
        Responded(r) =>
            /\ rq[r].file_size > 0 =>
                  /\ rq[r].response.status = 200
                  /\ rq[r].response.transcript = rq[r].transcription
                  /\ WellFormedTimeline(rq[r].response.mouthCues)
            /\ rq[r].response.status # 200 => StructurallyInvalid(r)

\* C2 amended: once a non-empty payload is staged every later failure yields
\* 200 with a valid result, except a staged file missing when the timeline is
\* generated (FileNotFoundError re-raised, answered 500); a status other than
\* 200 is a 400 for a structurally invalid request or a 500 for a failed
\* save, a file missing at the size check or missing at timeline generation.
C2_DegradesExceptMissingFile ==
    \A r \in Requests :
        Responded(r) =>
            /\ rq[r].file_size > 0 =>
                  \/ /\ rq[r].response.status = 200
                     /\ rq[r].response.transcript = rq[r].transcription
                     /\ WellFormedTimeline(rq[r].response.mouthCues)
                  \/ /\ rq[r].response.status = 500
                     /\ rq[r].raised_in = "generate"
                     /\ rq[r].exc = "FileNotFoundError"
            /\ rq[r].response.status # 200 =>
                  \/ /\ rq[r].response.status = 400
                     /\ StructurallyInvalid(r)
                  \/ /\ rq[r].response.status = 500
                     /\ \/ rq[r].raised_in = "save"
                        \/ rq[r].raised_in \in {"getsize", "generate"}
                           /\ rq[r].exc = "FileNotFoundError"

\* C2 witness: a request with a usable transcript answered 500 because its
\* staged file was gone when the timeline was generated.
C2_Witness ==
    \E r \in Requests :
        /\ Responded(r)
        /\ rq[r].file_size > 0
        /\ rq[r].outcome = "text"
        /\ rq[r].raised_in = "generate"
        /\ rq[r].response.status = 500

\* The transcription outcomes that are not a recognised text.
FailureOutcomes == {"unintelligible", "file_not_found", "request_error", "unexpected"}

\* C3: whenever transcribe_audio yields empty text or a failure outcome,
\* generate_viseme_data is not invoked and the response is 200 with an
\* empty mouthCues list.
C3_NoTimelineWithoutTranscript ==
    \A r \in Requests :
        rq[r].outcome \in FailureOutcomes =>
            /\ rq[r].n_generate = 0
            /\ rq[r].pc \in {"transcribed", "finally", "responded"}
            /\ rq[r].pc \in {"finally", "responded"} =>
                  /\ rq[r].response.status = 200
                  /\ rq[r].response.mouthCues = <<>>

\* C3 witness: each failure outcome has been answered.
C3_Witness ==
    \E r \in Requests :
        /\ Responded(r)
        /\ rq[r].outcome = "unexpected"
        /\ rq[r].n_recognize = 1
        /\ rq[r].response.status = 200

\* C4: generate_viseme_data is called exactly when the transcription outcome
\* is a recognised non-empty text, and for a staged clip of d ms that was
\* decoded the 200 response carries that text and min(floor(5*d/1000), 30)
\* cues.
C4_TimelineIffRecognizedText ==
    \A r \in Requests :
        rq[r].pc \in {"finally", "responded"} /\ rq[r].outcome # "none" =>
            /\ rq[r].n_generate = 1 <=>
                  (rq[r].outcome = "text" /\ rq[r].transcription # EmptyStr)
            /\ rq[r].decoded =>
                  /\ rq[r].response.status = 200
                  /\ rq[r].response.transcript = rq[r].transcription
                  /\ Len(rq[r].response.mouthCues) =
                        Min(rq[r].payload.ms \div 200, 30)

\* SpecGen: the call has returned a timeline for a decodable WAV clip.
GenReturned == gen_pc = "done" /\ gen_in.exists /\ gen_in.wav /\ gen_out.exc = "none"

\* C5: for a clip of d whole milliseconds the returned timeline has exactly
\* min(floor(5 * d / 1000), 30) cues when d > 0 and none when d <= 0; it
\* never has more than 30.
C5_CueCount ==
    (gen_pc = "done" /\ gen_in.exists /\ gen_in.wav) =>
        /\ gen_out.exc = "none"
        /\ Len(gen_out.mouthCues) <= 30
        /\ gen_in.ms <= 0 => Len(gen_out.mouthCues) = 0
        /\ gen_in.ms > 0 =>
              Len(gen_out.mouthCues) =
                  (IF gen_in.ms \div 200 < 30 THEN gen_in.ms \div 200 ELSE 30)

\* C5 witness: a clip long enough for more than 30 cues got exactly 30.
C5_Witness ==
    /\ GenReturned
    /\ gen_in.ms >= 6200
    /\ Len(gen_out.mouthCues) = 30

\* C6: in every non-empty returned timeline (times in whole milliseconds) the
\* first cue starts at 0, each cue ends where the next starts, every cue has
\* start < end, starts are strictly ascending, and the last cue ends at the
\* clip's duration.
C6_CuesPartitionDuration ==
    (GenReturned /\ Len(gen_out.mouthCues) > 0) =>
        LET cues == gen_out.mouthCues
            n == Len(cues)
        IN  /\ cues[1].start = 0
            /\ \A j \in 1..(n - 1) : cues[j].end = cues[j + 1].start
            /\ \A j \in 1..n : cues[j].start < cues[j].end
            /\ \A j \in 1..(n - 1) : cues[j].start < cues[j + 1].start
            /\ cues[n].end = gen_in.ms

\* C6 witness: a two-cue timeline whose inner boundary 200.5 ms rounded up.
C6_Witness ==
    /\ GenReturned
    /\ gen_in.ms = 401
    /\ Len(gen_out.mouthCues) = 2
    /\ gen_out.mouthCues[1].end = 201
    /\ gen_out.mouthCues[2].start = 201

\* The symbol the palette A,B,C,D,E,F,G,H,X assigns to cue index i.
PaletteSymbol(i) ==
    CASE i % 9 = 0 -> "A" [] i % 9 = 1 -> "B" [] i % 9 = 2 -> "C"
      [] i % 9 = 3 -> "D" [] i % 9 = 4 -> "E" [] i % 9 = 5 -> "F"
      [] i % 9 = 6 -> "G" [] i % 9 = 7 -> "H" [] i % 9 = 8 -> "X"

\* C7: cue index i of every returned timeline carries palette[i mod 9] of
\* the palette A,B,C,D,E,F,G,H,X (index 9 is A again, index 29 is C).
C7_SymbolsCyclePalette ==
    GenReturned =>
        LET cues == gen_out.mouthCues IN
        /\ \A j \in 1..Len(cues) : cues[j].value = PaletteSymbol(j - 1)
        /\ Len(cues) >= 10 => cues[10].value = "A"
        /\ Len(cues) = 30 => cues[30].value = "C"

\* C7 witness: a 30-cue timeline with X at index 8 and C at index 29.
C7_Witness ==
    /\ GenReturned
    /\ Len(gen_out.mouthCues) = 30
    /\ gen_out.mouthCues[9].value = "X"
    /\ gen_out.mouthCues[30].value = "C"

\* C8: a request without an 'audio' part is answered 400 'No audio file
\* part', one with an empty filename is answered 400; neither gets a staged
\* name or writes a file, and neither reaches transcription or timeline
\* generation.
C8_ValidationRejects ==
    \A r \in Requests :
        (rq[r].pc \notin {"idle", "received"}
            /\ (~rq[r].has_audio \/ rq[r].original_filename = EmptyStr)) =>
            /\ Responded(r)
            /\ rq[r].response.status = 400
            /\ ~rq[r].has_audio => rq[r].response.error = "No audio file part"
            /\ rq[r].input_filepath = 0
            /\ ~rq[r].wrote
            /\ rq[r].n_transcribe = 0
            /\ rq[r].n_recognize = 0
            /\ rq[r].n_generate = 0

\* C8 witness: a request with an audio part but an empty filename was
\* rejected.
C8_Witness ==
    \E r \in Requests :
        /\ Responded(r)
        /\ rq[r].has_audio
        /\ rq[r].original_filename = EmptyStr
        /\ rq[r].response.status = 400

\* The save of request r completed with a zero-length payload and the size
\* check found the file.
StagedEmpty(r) ==
    /\ rq[r].pc \notin {"idle", "received", "validated", "saved"}
    /\ rq[r].cleanup_input
    /\ rq[r].payload.size = 0
    /\ rq[r].raised_in # "getsize"

\* C9 as stated: a zero-length staged payload is answered 400, never reaches
\* transcription or timeline generation, and its staged file is removed
\* before the request ends.
C9_EmptyPayloadRejectedAndRemoved ==
    \A r \in Requests :
        StagedEmpty(r) =>
            /\ rq[r].pc \in {"finally", "responded"}
            /\ rq[r].response.status = 400
            /\ rq[r].n_transcribe = 0
            /\ rq[r].n_recognize = 0
            /\ rq[r].n_generate = 0
            /\ Responded(r) => ~StagedFilePresent(r)

\* C9 amended: a zero-length staged payload is answered 400 and never
\* reaches transcription or timeline generation; its staged file is removed
\* before the request ends unless os.remove itself fails, in which case the
\* file stays and the 400 is returned all the same.
C9_EmptyPayloadRejectedBestEffortRemoval ==
    \A r \in Requests :
        StagedEmpty(r) =>
            /\ rq[r].pc \in {"finally", "responded"}
            /\ rq[r].response.status = 400
            /\ rq[r].n_transcribe = 0
            /\ rq[r].n_recognize = 0
            /\ rq[r].n_generate = 0
            /\ Responded(r) => (StagedFilePresent(r) <=> rq[r].remove_failed)

\* C9 witness: an empty payload was rejected and its staged file removed.
C9_Witness ==
    \E r \in Requests :
        /\ Responded(r)
        /\ StagedEmpty(r)
        /\ rq[r].response.status = 400
        /\ ~rq[r].remove_failed
        /\ ~StagedFilePresent(r)

\* C10 as stated: after a network/service error of the transcription call
\* the response is 200 with the empty string as transcript and an empty
\* mouthCues list.
C10_ServiceErrorEmptyTranscript ==
    \A r \in Requests :
        (Responded(r) /\ rq[r].outcome = "request_error") =>
            /\ rq[r].response.status = 200
            /\ rq[r].response.transcript = EmptyStr
            /\ rq[r].response.mouthCues = <<>>

\* C10 amended: after a network/service error of the transcription call the
\* response is 200 with an empty mouthCues list, and its transcript is not
\* empty: it is the message "Transcription failed: API request error
\* (<detail>). Check internet connection."
C10_ServiceErrorMessageAsTranscript ==
    \A r \in Requests :
        (Responded(r) /\ rq[r].outcome = "request_error") =>
            /\ rq[r].response.status = 200
            /\ rq[r].response.transcript # EmptyStr
            /\ \E e \in ErrorDetails : rq[r].response.transcript = MsgApiError(e)
            /\ Contains(StrFailed, Lower(rq[r].response.transcript))
            /\ rq[r].response.mouthCues = <<>>

\* C10 witness: a request whose transcription call failed with a service
\* error was answered.
C10_Witness ==
    \E r \in Requests :
        /\ Responded(r)
        /\ rq[r].outcome = "request_error"
        /\ rq[r].n_recognize = 1
        /\ rq[r].response.status = 200

(* --------------------------- scheduling -------------------------------- *)

\* A step of process_speech's own code for request r: everything but the
\* arrival of the request and the return of the speech-to-text service.
HandlerStep(r) ==
    \/ Validate(r)
    \/ Save(r)
    \/ SizeCheck(r)
    \/ TranscribeRead(r)
    \/ SkipTimeline(r)
    \/ ComputeTimeline(r)
    \/ Finally(r)

\* A request arrives with a WAV clip under a non-empty declared filename.
ReceiveLive(r) ==
    /\ rq[r].pc = "idle"
    /\ rq' = [rq EXCEPT ![r].pc = "received",
                        ![r].has_audio = TRUE,
                        ![r].original_filename = <<"c","l","i","p",".","w","a","v">>,
                        ![r].payload = WavClip(401)]
    /\ UNCHANGED <<uploads, issued, fp>>
    /\ GenUnchanged

LiveNext ==
    \E r \in ConcRequests :
        \/ ReceiveLive(r)
        \/ HandlerStep(r)
        \/ Recognize(r)
        \/ ExternalRemove(r)

\* The thread that serves a request keeps running: a step of the handler
\* that stays possible is eventually taken.  Nothing is assumed of the
\* speech-to-text service, of the arrival of requests, or of deletions from
\* outside.
SpecLive ==
    /\ ConcInit
    /\ [][LiveNext]_vars
    /\ \A r \in ConcRequests : WF_vars(HandlerStep(r))

\* The call recognize_google made for request r returns.
ServiceReturns(r) == WF_vars(Recognize(r))

(* ------------------- properties of concurrent requests ---------------- *)

\* The transcripts a request processed alone can get for its payload.
SoloTranscripts(payload) ==
    {MsgFileNotFound} \cup {MsgUnexpected(e) : e \in ErrorDetails}
        \cup (IF payload.wav
                THEN RecognizedTexts \cup {EmptyStr}
                         \cup {MsgApiError(e) : e \in ErrorDetails}
                ELSE {})

\* The timelines a request processed alone can get for its payload.
SoloTimelines(payload) ==
    {<<>>} \cup
    (IF payload.wav
       THEN {generate_viseme_data(payload, up).mouthCues :
                 up \in SUBSET TieBoundaries(payload.ms, num_cues(payload.ms))}
       ELSE {})

\* The responses a request with these inputs can get when it is processed
\* alone, over every outcome of the save, the transcription service, the
\* decoder and the deletion.
SoloResponses(has_audio, filename, payload) ==
    IF ~has_audio
      THEN {ErrorResponse(400, "No audio file part",
                          "Request must contain a file part named 'audio'.")}
    ELSE IF filename = EmptyStr
      THEN {ErrorResponse(400, "No selected file",
                          "Uploaded file has an empty filename.")}
    ELSE {HandlerResponse("FileNotFoundError"), HandlerResponse("OSError")}
         \cup (IF payload.size = 0
                 THEN {HandlerResponse("ValueError")}
                 ELSE {SuccessResponse(filename, payload.size, t, c) :
                          t \in SoloTranscripts(payload),
                          c \in SoloTimelines(payload)})

\* No two requests have the same staged resource name.
UniqueStagedNames ==
    \A r1, r2 \in DOMAIN rq :
        (r1 # r2 /\ rq[r1].input_filepath # 0) =>
            rq[r1].input_filepath # rq[r2].input_filepath

\* A step that changes a staged file is a step of no request (the file is
\* removed from outside) or of the one request the file belongs to.
TouchesOwnFileOnly ==
    \A u \in DOMAIN uploads :
        uploads'[u] # uploads[u] =>
            \A r \in DOMAIN rq :
                rq'[r] # rq[r] =>
                    /\ rq[r].input_filepath = u
                    /\ \A r2 \in DOMAIN rq \ {r} : rq[r2].input_filepath # u

\* What a request has measured and been told stems from its own payload.
OwnPayloadOnly(r) ==
    /\ rq[r].file_size \in {0, rq[r].payload.size}
    /\ rq[r].outcome # "none" => rq[r].transcription \in SoloTranscripts(rq[r].payload)
    /\ rq[r].pc \in {"finally", "responded"} =>
          rq[r].response \in SoloResponses(rq[r].has_audio,
                                rq[r].original_filename, rq[r].payload)

\* C11: under every interleaving of the steps of concurrent requests no two
\* requests use the same staged name, no request reads, measures or deletes
\* a staged file of another request, and every response is one the request
\* would get when processed alone.
C11_ConcurrentRequestsIsolated ==
    [][ /\ UniqueStagedNames'
        /\ TouchesOwnFileOnly
        /\ \A r \in DOMAIN rq : OwnPayloadOnly(r)' ]_vars

\* C11 witness: two requests with different payloads are in flight together,
\* both staged files present, one already past its timeline.
C11_Witness ==
    \E r1, r2 \in DOMAIN rq :
        /\ rq[r1].pc = "finally"
        /\ rq[r1].response.status = 200
        /\ Len(rq[r1].response.mouthCues) = 15
        /\ rq[r2].pc = "recognizing"
        /\ rq[r2].payload.ms = 401
        /\ StagedFilePresent(r1)
        /\ StagedFilePresent(r2)

(* ------------------------ properties of the release -------------------- *)

\* C12: a failure to delete the staged file in the cleanup step is never
\* propagated: the step delivers the response computed before it, status
\* and body unchanged, whether the deletion succeeds, fails or is skipped.
C12_RemoveFailureNotPropagated ==
    [][ \A r \in DOMAIN rq :
            rq[r].pc = "finally" =>
                /\ rq'[r].response = rq[r].response
                /\ rq'[r].exc = rq[r].exc
                /\ rq'[r].pc \in {"finally", "responded"} ]_vars

\* C12 witness: a request has been answered 200 with a timeline although
\* the deletion of its staged file failed.
C12_Witness ==
    \E r \in DOMAIN rq :
        /\ Responded(r)
        /\ rq[r].remove_failed
        /\ StagedFilePresent(r)
        /\ rq[r].response.status = 200
        /\ rq[r].response.mouthCues # <<>>

(* ------------------------ properties of the lifecycle ------------------ *)

\* The position of a request in its lifecycle.
Rank(pc) ==
    CASE pc = "idle"        -> 0
      [] pc = "received"    -> 1
      [] pc = "validated"   -> 2
      [] pc = "saved"       -> 3
      [] pc = "sized"       -> 4
      [] pc = "recognizing" -> 5
      [] pc = "transcribed" -> 6
      [] pc = "finally"     -> 7
      [] pc = "responded"   -> 8

\* The lifecycle states a request can be in right after a given one.
Successors(pc) ==
    CASE pc = "idle"        -> {"received"}
      [] pc = "received"    -> {"validated", "responded"}
      [] pc = "validated"   -> {"saved", "finally"}
      [] pc = "saved"       -> {"sized", "finally"}
      [] pc = "sized"       -> {"recognizing", "transcribed"}
      [] pc = "recognizing" -> {"transcribed"}
      [] pc = "transcribed" -> {"finally"}
      [] pc = "finally"     -> {"responded"}
      [] pc = "responded"   -> {}

\* C13: a request moves through its lifecycle only forward, in the order
\* received, validated, staged, transcribed, timeline computed or skipped,
\* released, responded; the timeline is generated only after transcription
\* has returned; a request that got a staged name goes through the release
\* step before its response is delivered, on success and on every error.
C13_LifecycleOnlyForward ==
    [][ \A r \in DOMAIN rq :
            rq'[r] # rq[r] =>
                /\ rq'[r].pc \in Successors(rq[r].pc)
                /\ Rank(rq'[r].pc) > Rank(rq[r].pc)
                /\ rq'[r].n_generate # rq[r].n_generate =>
                      /\ rq[r].pc = "transcribed"
                      /\ rq[r].n_transcribe = 1
                      /\ rq[r].outcome # "none"
                      /\ rq[r].n_generate = 0
                /\ (rq'[r].pc = "responded" /\ rq[r].input_filepath # 0) =>
                      rq[r].pc = "finally"
                /\ rq'[r].pc = "finally" =>
                      rq'[r].response.status \in {200, 400, 500} ]_vars

\* C13 witness: a request that failed after staging (empty payload) has
\* been through the release step, its file removed, and is answered.
C13_Witness ==
    \E r \in DOMAIN rq :
        /\ Responded(r)
        /\ rq[r].raised_in = "check"
        /\ rq[r].cleanup_input
        /\ ~rq[r].remove_failed
        /\ ~StagedFilePresent(r)
        /\ rq[r].response.status = 400

(* ------------------ properties of the generator's errors --------------- *)

\* The call of generate_viseme_data has ended, by return or by exception.
GenEnded == gen_pc = "done"

\* C14 as stated: generate_viseme_data never propagates an error; for any
\* error while reading or decoding the resource, the resource not being
\* found included, it returns the empty timeline.
C14_NeverPropagates ==
    GenEnded =>
        /\ gen_out.exc = "none"
        /\ (~gen_in.exists \/ ~gen_in.wav) => gen_out.mouthCues = <<>>

\* C14 amended: the only error generate_viseme_data propagates is
\* FileNotFoundError, raised exactly when the resource does not exist; any
\* other error while reading or decoding yields the empty timeline.
C14_PropagatesOnlyFileNotFound ==
    GenEnded =>
        /\ gen_out.exc \in {"none", "FileNotFoundError"}
        /\ gen_out.exc = "FileNotFoundError" <=> ~gen_in.exists
        /\ (gen_in.exists /\ ~gen_in.wav) =>
              gen_out = [exc |-> "none", mouthCues |-> <<>>]
        /\ gen_out.exc # "none" => gen_out.mouthCues = <<>>

\* C14 witness: the call on an undecodable resource has returned the empty
\* timeline.
C14_Witness ==
    /\ GenEnded
    /\ gen_in = Garbage(10)
    /\ gen_out.exc = "none"
    /\ gen_out.mouthCues = <<>>

(* -------------------- properties of the transcription ------------------ *)

\* C15: within one request transcribe_audio is called at most once and the
\* speech-to-text service at most once, whatever the first call gave (text,
\* unintelligible, service error, unexpected error); the service is not
\* called at all when the staged file cannot be located.
C15_ServiceCalledAtMostOnce ==
    \A r \in DOMAIN rq :
        /\ rq[r].n_transcribe <= 1
        /\ rq[r].n_recognize <= rq[r].n_transcribe
        /\ rq[r].outcome = "file_not_found" => rq[r].n_recognize = 0
        /\ rq[r].outcome \in {"text", "unintelligible", "request_error"} =>
              rq[r].n_recognize = 1
        /\ rq[r].pc = "recognizing" => rq[r].n_recognize = 0

\* C15 witness: a request whose one call of the service ended in a service
\* error has been answered, and one whose staged file was gone made no call.
C15_Witness ==
    \E r \in DOMAIN rq :
        /\ Responded(r)
        /\ rq[r].n_transcribe = 1
        /\ \/ rq[r].outcome = "request_error" /\ rq[r].n_recognize = 1
           \/ rq[r].outcome = "file_not_found" /\ rq[r].n_recognize = 0

(* --------------------- properties of the declared name ----------------- *)

\* Two requests carry the same payload under non-empty declared filenames.
DifferOnlyInFilename(r1, r2) ==
    /\ rq[r1].has_audio /\ rq[r2].has_audio
    /\ rq[r1].original_filename # EmptyStr
    /\ rq[r2].original_filename # EmptyStr
    /\ rq[r1].payload = rq[r2].payload

\* What the environment did to a request so far: the exception raised and
\* where, the answer of the speech service or the read failure that kept
\* the request from it, what the save, the decoder and the deletion did.
Environment(r) ==
    <<rq[r].raised_in, rq[r].exc, rq[r].outcome, rq[r].transcription,
      rq[r].n_recognize, rq[r].wrote, rq[r].decoded, rq[r].remove_failed>>

\* The path a request has taken and the result it carries, the declared
\* filename left out.
PathAndResult(r) ==
    <<rq[r].pc, rq[r].cleanup_input, rq[r].file_size,
      rq[r].n_transcribe, rq[r].n_generate,
      rq[r].response.status, rq[r].response.error, rq[r].response.details,
      rq[r].response.size, rq[r].response.transcript,
      rq[r].response.mouthCues>>

\* The number of steps a request has taken.
Progress(r) == Rank(rq[r].pc)

\* C16: a request with a non-empty declared filename is staged whatever the
\* name's extension, under a fresh identifier that never changes, and is
\* never rejected for its name; two requests that differ only in the
\* declared filename and meet the same environment take the same path to
\* the same status, transcript and timeline.
C16_DeclaredFilenameIrrelevant ==
    [][ /\ \A r \in DOMAIN rq :
             /\ (rq[r].input_filepath = 0 /\ rq'[r].input_filepath # 0) =>
                   /\ rq'[r].input_filepath \in (DOMAIN uploads) \ issued
                   /\ rq'[r].input_filepath \in issued'
             /\ rq[r].input_filepath # 0 =>
                   rq'[r].input_filepath = rq[r].input_filepath
             /\ (rq'[r].has_audio /\ rq'[r].original_filename # EmptyStr
                    /\ Rank(rq'[r].pc) > 1) =>
                   /\ rq'[r].input_filepath # 0
                   /\ rq'[r].response.status = 400 => rq'[r].payload.size = 0
        /\ \A r1, r2 \in DOMAIN rq :
             (DifferOnlyInFilename(r1, r2)' /\ Progress(r1)' = Progress(r2)'
                  /\ Environment(r1)' = Environment(r2)') =>
                 PathAndResult(r1)' = PathAndResult(r2)' ]_vars

\* C16 witness: two requests with the same payload, one declared clip.wav
\* and one voice.webm, have both been answered 200 with the same transcript
\* and the same non-empty timeline.
C16_Witness ==
    \E r1, r2 \in DOMAIN rq :
        /\ Responded(r1) /\ Responded(r2)
        /\ rq[r1].payload = rq[r2].payload
        /\ ~rq[r1].warned /\ rq[r2].warned
        /\ rq[r1].response.status = 200
        /\ rq[r1].response.mouthCues # <<>>
        /\ rq[r2].response.status = rq[r1].response.status
        /\ rq[r2].response.transcript = rq[r1].response.transcript
        /\ rq[r2].response.mouthCues = rq[r1].response.mouthCues

(* ------------------- properties of repeated generation ----------------- *)

\* The request got its timeline from generate_viseme_data, which decoded
\* the clip.
TimelineGenerated(r) ==
    /\ rq[r].pc \in {"finally", "responded"}
    /\ rq[r].n_generate = 1
    /\ rq[r].decoded
    /\ rq[r].response.status = 200

Answered(r) ==
    /\ Responded(r)
    /\ rq[r].response.status \in {200, 400, 500}

\* C18: every request that was received is eventually answered 200, 400 or
\* 500, its release step done, provided the call of the speech-to-text
\* service returns; whatever the other requests do, the one place where a
\* request can stay for ever is that call.
C18_RespondsIfServiceReturns ==
    \A r \in ConcRequests :
        /\ ServiceReturns(r) => (rq[r].pc = "received" ~> Answered(r))
        /\ rq[r].pc = "received" ~> (Answered(r) \/ rq[r].pc = "recognizing")

\* C18 witness: one request is answered 200 with a timeline while the other
\* is still waiting for the speech-to-text service.
C18_Witness ==
    \E r1, r2 \in ConcRequests :
        /\ Answered(r1)
        /\ rq[r1].n_recognize = 1
        /\ rq[r1].response.status = 200
        /\ rq[r1].response.mouthCues # <<>>
        /\ rq[r2].pc = "recognizing"

(* ---------------- properties of transcription failures ----------------- *)

\* The outcomes of transcribe_audio that are failures of the call.
TranscriptionFailures == {"file_not_found", "request_error", "unexpected"}

\* C19: transcribe_audio never raises to process_speech: while it runs and
\* when it has returned no exception is pending; each failure it returns
\* (file not found, API request error, unexpected error) is a non-empty
\* message with the word "failed", which the usability check of
\* process_speech classifies as not usable, so that generate_viseme_data is
\* never called, and never raises, after such a failure.
C19_TranscriptionFailuresNeverUsable ==
    \A r \in DOMAIN rq :
        /\ rq[r].pc \in {"recognizing", "transcribed"} =>
              rq[r].exc = "none" /\ rq[r].raised_in = "none"
        /\ rq[r].n_transcribe = 1 =>
              rq[r].raised_in \in {"none", "generate"}
        /\ rq[r].outcome \in TranscriptionFailures =>
              /\ rq[r].transcription # EmptyStr
              /\ Contains(StrFailed, Lower(rq[r].transcription))
              /\ ~Usable(rq[r].transcription)
              /\ rq[r].n_generate = 0
              /\ rq[r].raised_in = "none"

\* C19 witness: a request whose staged WAV file could not be read, the
\* service never reached, has been answered 200 without a timeline.
C19_Witness ==
    \E r \in DOMAIN rq :
        /\ Responded(r)
        /\ rq[r].outcome = "unexpected"
        /\ rq[r].n_recognize = 0
        /\ rq[r].payload.wav
        /\ ~Usable(rq[r].transcription)
        /\ rq[r].n_generate = 0
        /\ rq[r].response.status = 200

====
